---- MODULE Spec2Model ----
(***************************************************************************)
(* Task-to-resource assignment demo (package solver).                      *)
(*                                                                         *)
(*   data.py      RawData.validate, RawData.transform_to_model_data        *)
(*   model.py     DemoModel.build_and_solve and its constraint builders    *)
(*   __main__.py  the pipeline: validate, transform, build_and_solve       *)
(*                                                                         *)
(* A pandas table with a unique index is a function from its index keys to *)
(* a record of its columns; the compatibility table, whose index is the    *)
(* pair (Resource, Task) and none of whose own columns the code reads, is  *)
(* the set of its index pairs.  Durations, hours and rates are integers.   *)
(***************************************************************************)
EXTENDS Integers, Sequences, FiniteSets, TLC

VARIABLES
    raw_data,        \* __main__.py: raw_data, the RawData under the run
    raw_input,       \* history: the RawData as it was constructed
    pc,              \* position of the run
    validation,      \* <<>> before validate(); <<is_valid, errors>> after
    model_data,      \* the ModelData returned by transform_to_model_data
    model_data_again,\* the ModelData of a second transform call (data harness)
    mdl,             \* build_and_solve: the assembled solver model
    demo_lp,         \* the exported demo.lp
    status,          \* build_and_solve: the solver status
    X,               \* the solved value of each decision variable
    objective_value, \* the objective value the solver reports
    returned,        \* the SolutionData handed back to the caller
    exception,       \* the exception that ended the run
    steps,           \* history: the steps performed, in order
    names            \* the names given to the variables and constraints

vars == <<raw_data, raw_input, pc, validation, model_data, model_data_again,
          mdl, demo_lp, status, X, objective_value, returned, exception, steps,
          names>>

-----------------------------------------------------------------------------
(* Bounds of the input space.                                              *)

MaxTime == 2
MaxAvailableTime == 2
MaxCostPerHour == 2

TaskKeys == {"T1", "T2"}
ResourceKeys == {"R1", "R2"}
IndexPairs == ResourceKeys \X TaskKeys

\* A value that is not there yet (an unassigned Python name).
None == [none |-> TRUE]

\* The missing value a left merge leaves where the right table has no row.
NaN == -1

-----------------------------------------------------------------------------
(* Tables.                                                                 *)

TasksTables ==
    UNION {[S -> [Time : 1..MaxTime]] : S \in SUBSET TaskKeys}

ResourcesTables ==
    UNION {[S -> [AvailableTime : 0..MaxAvailableTime,
                  CostPerHour : 1..MaxCostPerHour]] : S \in SUBSET ResourceKeys}

RawData(tasks, resources, tasks_for_resource) ==
    [tasks |-> tasks, resources |-> resources,
     tasks_for_resource |-> tasks_for_resource]

ModelData(tasks, resources, tasks_for_resource) ==
    [tasks |-> tasks, resources |-> resources,
     tasks_for_resource |-> tasks_for_resource]

\* Every RawData of the bounded input space, dangling references included.
RawDatas ==
    {RawData(t, r, tfr) : t \in TasksTables, r \in ResourcesTables,
                          tfr \in SUBSET IndexPairs}

\* The data model's referential integrity: every compatibility row names a
\* resource of Resources and a task of Tasks.
ReferencesExist(rd) ==
    \A p \in rd.tasks_for_resource :
        p[1] \in DOMAIN rd.resources /\ p[2] \in DOMAIN rd.tasks

\* The example scenario: T1 takes 4, T2 takes 3; both resources have 5 hours;
\* R1 costs 10 an hour, R2 costs 6; every pair is compatible.
ExampleScenario ==
    RawData([t \in TaskKeys |-> [Time |-> IF t = "T1" THEN 4 ELSE 3]],
            [r \in ResourceKeys |->
                [AvailableTime |-> 5,
                 CostPerHour |-> IF r = "R1" THEN 10 ELSE 6]],
            IndexPairs)

-----------------------------------------------------------------------------
(* pandas helpers.                                                         *)

\* Series.sum() of column col of a table.
RECURSIVE ColumnSum(_, _)
ColumnSum(table, col) ==
    IF DOMAIN table = {} THEN 0
    ELSE LET k == CHOOSE k \in DOMAIN table : TRUE
             rest == [j \in DOMAIN table \ {k} |-> table[j]]
         IN table[k][col] + ColumnSum(rest, col)

\* The value a left merge pulls from column col of the right table for key.
Lookup(table, key, col) ==
    IF key \in DOMAIN table THEN table[key][col] ELSE NaN

\* Product of two column values; a missing value propagates.
Times(a, b) == IF a = NaN \/ b = NaN THEN NaN ELSE a * b

\* groupby("Task").size().index of the compatibility table.
GroupByTask(tasks_for_resource) == {p[2] : p \in tasks_for_resource}

\* groupby("Resource") keys of a (Resource, Task)-indexed table.
GroupByResource(index) == {p[1] : p \in index}

\* sep.join(parts), the separator kept as a token of the result.
RECURSIVE Join(_, _)
Join(sep, parts) ==
    IF Len(parts) = 0 THEN <<>>
    ELSE IF Len(parts) = 1 THEN <<parts[1]>>
    ELSE <<parts[1], sep>> \o Join(sep, Tail(parts))

-----------------------------------------------------------------------------
(* RawData.validate                                                        *)

\* Mutant: the capacity check also rejects an exact fit.
CapacityExceededOrEqual(rd) ==
    ColumnSum(rd.tasks, "Time") >= ColumnSum(rd.resources, "AvailableTime")

\* data.py line 79: the capacity check fails.
CapacityExceeded(rd) ==
    ColumnSum(rd.tasks, "Time") > ColumnSum(rd.resources, "AvailableTime")

\* data.py lines 87-89: the coverage check fails.
CoverageFailed(rd) ==
    Cardinality(GroupByTask(rd.tasks_for_resource))
        < Cardinality(DOMAIN rd.tasks)

\* data.py lines 81-85: the capacity message.
CapacityMessage(rd) ==
    [check |-> "capacity",
     total_time |-> ColumnSum(rd.tasks, "Time"),
     available_time |-> [r \in DOMAIN rd.resources |->
                            rd.resources[r].AvailableTime]]

\* data.py lines 91-103: the coverage message and the tasks it lists.
CoverageMessage(rd) ==
    [check |-> "coverage",
     missing_tasks |-> DOMAIN rd.tasks \ GroupByTask(rd.tasks_for_resource)]

\* Mutant: validation returns at the first failed check.
validate_fail_fast(rd) ==
    IF CapacityExceeded(rd) THEN <<FALSE, <<CapacityMessage(rd)>> >>
    ELSE IF CoverageFailed(rd) THEN <<FALSE, <<CoverageMessage(rd)>> >>
    ELSE <<TRUE, <<>> >>

\* data.py lines 66-104: the pair (is_valid, error_list).
validate(rd) ==
    LET valid1 == ~CapacityExceeded(rd)
        list1 == IF CapacityExceeded(rd) THEN <<CapacityMessage(rd)>> ELSE <<>>
        valid2 == IF CoverageFailed(rd) THEN FALSE ELSE valid1
        list2 == IF CoverageFailed(rd)
                 THEN Append(list1, CoverageMessage(rd)) ELSE list1
    IN <<valid2, list2>>

-----------------------------------------------------------------------------
(* RawData.transform_to_model_data                                         *)

\* Mutant: an inner join, which drops the rows whose keys have no match.
transform_inner_join(rd) ==
    LET kept == {p \in rd.tasks_for_resource :
                    p[1] \in DOMAIN rd.resources /\ p[2] \in DOMAIN rd.tasks}
    IN ModelData(
        [t \in DOMAIN rd.tasks |-> [Time |-> rd.tasks[t].Time]],
        [r \in DOMAIN rd.resources |->
            [AvailableTime |-> rd.resources[r].AvailableTime]],
        [p \in kept |->
            [Cost |-> Times(rd.resources[p[1]].CostPerHour,
                            rd.tasks[p[2]].Time)]])

\* data.py lines 106-130.
transform_to_model_data(rd) ==
    LET merged == [p \in rd.tasks_for_resource |->
                      [Time |-> Lookup(rd.tasks, p[2], "Time"),
                       CostPerHour |-> Lookup(rd.resources, p[1], "CostPerHour")]]
        with_cost == [p \in DOMAIN merged |->
                         [Cost |-> Times(merged[p].CostPerHour, merged[p].Time)]]
    IN ModelData(
        [t \in DOMAIN rd.tasks |-> [Time |-> rd.tasks[t].Time]],
        [r \in DOMAIN rd.resources |->
            [AvailableTime |-> rd.resources[r].AvailableTime]],
        with_cost)

-----------------------------------------------------------------------------
(* namer: the names of variables and constraints.                          *)
(*                                                                         *)
(* A Python str is the sequence of its characters, so that two strings are *)
(* equal exactly when they read the same.  An index key is a str or an     *)
(* int, an index value a key or a tuple of keys.                           *)

PyStr(chars) == [type |-> "str", value |-> chars]
PyInt(n) == [type |-> "int", value |-> n]
PyTuple(items) == [type |-> "tuple", value |-> items]

Digits == <<"0", "1", "2", "3", "4", "5", "6", "7", "8", "9">>

\* str(n) of an int: its decimal digits.
RECURSIVE IntToStr(_)
IntToStr(n) ==
    IF n < 0 THEN <<"-">> \o IntToStr(-n)
    ELSE IF n < 10 THEN <<Digits[n + 1]>>
    ELSE IntToStr(n \div 10) \o <<Digits[(n % 10) + 1]>>

\* str(i) of a key: a str is itself, an int its digits.
str(i) == IF i.type = "int" THEN IntToStr(i.value) ELSE i.value

\* sep.join(parts) of strings: the parts' characters with sep between them.
RECURSIVE StrJoin(_, _)
StrJoin(sep, parts) ==
    IF Len(parts) = 0 THEN <<>>
    ELSE IF Len(parts) = 1 THEN parts[1]
    ELSE parts[1] \o sep \o StrJoin(sep, Tail(parts))

\* model.py lines 11-28, model-ortools.py lines 10-27: f"{name}[{ind_vals}]".
namer(name, ind_val) ==
    LET ind_vals ==
            IF ind_val.type \in {"str", "int"} THEN str(ind_val)
            ELSE StrJoin(<<",">>,
                         [i \in 1..Len(ind_val.value) |-> str(ind_val.value[i])])
    IN name \o <<"[">> \o ind_vals \o <<"]">>

\* model-ortools.py lines 86-92: IntVar(0, 1, namer("x", a)) for each row a
\* of the index of model_data.tasks_for_resource.
build_variable_names(md) ==
    [a \in DOMAIN md.tasks_for_resource |-> namer(<<"x">>, PyTuple(a))]

\* model.py lines 148-152: name=namer("MaxHoursForResource", it.Index) for
\* each resource of the variables' index.
max_hours_constraint_names(assign_vars) ==
    [r \in GroupByResource(assign_vars) |->
        namer(<<"MaxHoursForResource">>, r)]

\* model.py lines 171-175: name=namer("AssignEachTaskToOneResource", it.Index)
\* for each task of the variables' index.
one_resource_constraint_names(assign_vars) ==
    [t \in GroupByTask(assign_vars) |->
        namer(<<"AssignEachTaskToOneResource">>, t)]

-----------------------------------------------------------------------------
(* DemoModel: the assembled model.                                         *)

\* model.py lines 87-95: one binary variable per row of the index of
\* model_data.tasks_for_resource.
build_variables(md) == DOMAIN md.tasks_for_resource

\* Mutant: the terms of a resource's sum are not weighted by the task time.
build_max_work_hours_unweighted(task_hours, resource_hours_allowed, assign_vars) ==
    {[index |-> r,
      sum_eta_dot_x |-> [p \in {q \in assign_vars : q[1] = r} |-> 0],
      gamma |-> Lookup(resource_hours_allowed, r, "AvailableTime")]
     : r \in GroupByResource(assign_vars)}

\* model.py lines 117-154: for each resource of the variables' index the
\* constraint  sum over its rows of eta[Task] * x  <=  gamma[Resource].
build_max_work_hours_for_resources_constraints(task_hours, resource_hours_allowed, assign_vars) ==
    {[index |-> r,
      sum_eta_dot_x |-> [p \in {q \in assign_vars : q[1] = r} |->
                            Lookup(task_hours, p[2], "Time")],
      gamma |-> Lookup(resource_hours_allowed, r, "AvailableTime")]
     : r \in GroupByResource(assign_vars)}

\* Mutant: a task may be left without a resource (<= 1 in place of == 1).
build_at_most_one_resource_constraints(assign_vars) ==
    {[index |-> t,
      sum_over_r_on_x |-> {q \in assign_vars : q[2] = t},
      sense |-> "<=",
      rhs |-> 1]
     : t \in GroupByTask(assign_vars)}

\* model.py lines 156-179: for each task of the variables' index the
\* constraint  sum over its rows of x  ==  1.
build_can_only_assign_task_to_one_resource_constraints(assign_vars) ==
    {[index |-> t,
      sum_over_r_on_x |-> {q \in assign_vars : q[2] = t},
      sense |-> "==",
      rhs |-> 1]
     : t \in GroupByTask(assign_vars)}

\* Mutant: the objective charges the same for every pair.
build_objective_flat(costs, assign_vars) ==
    [p \in assign_vars |-> 1]

\* model.py lines 181-196: minimise the sum of Cost * x over the rows.
build_objective_function(costs, assign_vars) ==
    [p \in assign_vars |-> Lookup(costs, p, "Cost")]

\* model.py lines 50-59: variables, the two constraint families, objective.
build(md) ==
    LET asign_vars == build_variables(md)
    IN [variables |-> asign_vars,
        max_hours |-> build_max_work_hours_for_resources_constraints(
                          md.tasks, md.resources, asign_vars),
        one_resource |->
            build_can_only_assign_task_to_one_resource_constraints(asign_vars),
        objective |->
            build_objective_function(md.tasks_for_resource, asign_vars)]

-----------------------------------------------------------------------------
(* The solver: a collaborator that receives the model and answers with a   *)
(* status and, when the status is OPTIMAL, a value for every variable.     *)

\* The value of a linear expression, coefficient by variable, under x.
RECURSIVE LinearValue(_, _)
LinearValue(coefficients, x) ==
    IF DOMAIN coefficients = {} THEN 0
    ELSE LET p == CHOOSE p \in DOMAIN coefficients : TRUE
             rest == [q \in DOMAIN coefficients \ {p} |-> coefficients[q]]
         IN coefficients[p] * x[p] + LinearValue(rest, x)

\* The binary assignments of the model's variables.
BinaryAssignments(m) == [m.variables -> {0, 1}]

\* x satisfies every constraint of the model.
SatisfiesConstraints(m, x) ==
    /\ \A c \in m.max_hours : LinearValue(c.sum_eta_dot_x, x) <= c.gamma
    /\ \A c \in m.one_resource :
          LET lhs == LinearValue([p \in c.sum_over_r_on_x |-> 1], x)
          IN IF c.sense = "==" THEN lhs = c.rhs ELSE lhs <= c.rhs

FeasibleSolutions(m) == {x \in BinaryAssignments(m) : SatisfiesConstraints(m, x)}

OptimalSolutions(m) ==
    {x \in FeasibleSolutions(m) :
        \A y \in FeasibleSolutions(m) :
            LinearValue(m.objective, x) <= LinearValue(m.objective, y)}

\* Statuses other than OPTIMAL and INFEASIBLE the solver can end with: an
\* interrupted solve on any model, "infeasible or unbounded" on a model
\* presolve finds to have no solution.
OtherStatuses(m) ==
    {"INTERRUPTED"} \cup
    (IF FeasibleSolutions(m) = {} THEN {"INF_OR_UNBD"} ELSE {})

\* model.py lines 66-67: what optimize() can leave behind.
SolverOutcomes(m) ==
    {[status |-> "OPTIMAL", X |-> x, ObjVal |-> LinearValue(m.objective, x)]
        : x \in OptimalSolutions(m)}
    \cup (IF FeasibleSolutions(m) = {}
          THEN {[status |-> "INFEASIBLE", X |-> None, ObjVal |-> None]}
          ELSE {})
    \cup {[status |-> s, X |-> None, ObjVal |-> None] : s \in OtherStatuses(m)}

-----------------------------------------------------------------------------
(* DemoModel.build_and_solve: reading the status.                          *)

\* model.py line 80: IsAssigned > 0.1, in tenths.
IsAssignedThresholdTenths == 1

\* model.py lines 71-73: the frame as created, IsAssigned missing everywhere.
EmptySolutionFrame(asign_vars) == [p \in asign_vars |-> [IsAssigned |-> NaN]]

\* model.py lines 77-80: the rows whose solved value is above the threshold.
ExtractAssignments(asign_vars, x) ==
    [p \in {q \in asign_vars : 10 * x[q] > IsAssignedThresholdTenths} |->
        [IsAssigned |-> x[p]]]

\* Mutant: an infeasible model is not reported.
RaisesOnNothing(st) == FALSE

\* model.py lines 81-83: the status that raises.
RaisesOnStatus(st) == st = "INFEASIBLE"

\* model.py lines 71-80: the frame build_and_solve ends with.
SolutionFrame(st, asign_vars, x) ==
    IF st = "OPTIMAL" THEN ExtractAssignments(asign_vars, x)
    ELSE EmptySolutionFrame(asign_vars)

\* data.py lines 133-137.  build_time and solve_time are wall-clock
\* differences no claim reads; they are left out.
SolutionData(assignments) == [assignments |-> assignments]

-----------------------------------------------------------------------------
(* The run.                                                                *)

is_valid == validation[1]
errors == validation[2]

Start(rd) ==
    /\ raw_data = rd
    /\ raw_input = rd
    /\ pc = "validate"
    /\ validation = <<>>
    /\ model_data = None
    /\ model_data_again = None
    /\ mdl = None
    /\ demo_lp = None
    /\ status = "None"
    /\ X = None
    /\ objective_value = None
    /\ returned = None
    /\ exception = None
    /\ steps = <<>>
    /\ names = None

\* __main__.py lines 5-11 with input that keeps the data model's referential
\* integrity, the example scenario among it.  A compatibility row whose task
\* or resource has no row of its own hands the solver library a missing
\* coefficient, and what the library makes of it is not code of this package:
\* the whole run is followed on input without such rows, validate and the
\* transform (SpecData) on any input.
Init ==
    \E rd \in {d \in RawDatas : ReferencesExist(d)} \cup {ExampleScenario} :
        Start(rd)

\* A RawData of any content, as from_json or a caller may construct it.
InitData == \E rd \in RawDatas : Start(rd)

\* __main__.py line 13.
Validate ==
    /\ pc = "validate"
    /\ validation' = validate(raw_data)
    /\ steps' = Append(steps, "validate")
    /\ pc' = "validated"
    /\ UNCHANGED <<names, raw_data, raw_input, model_data, model_data_again, mdl,
                   demo_lp, status, X, objective_value, returned, exception>>

\* __main__.py lines 15-16.
RaiseInvalid ==
    /\ pc = "validated"
    /\ ~is_valid
    /\ exception' = Join(", ", errors)
    /\ pc' = "halted"
    /\ UNCHANGED <<names, raw_data, raw_input, validation, model_data,
                   model_data_again, mdl, demo_lp, status, X, objective_value,
                   returned, steps>>

\* Mutant: the transform runs whatever validate() returned.
TransformUnguarded ==
    /\ pc = "validated"
    /\ model_data' = transform_to_model_data(raw_data)
    /\ steps' = Append(steps, "transform")
    /\ pc' = "build"
    /\ UNCHANGED <<names, raw_data, raw_input, validation, model_data_again, mdl,
                   demo_lp, status, X, objective_value, returned, exception>>

\* __main__.py lines 15-18: past the check of is_valid, the transform.
Transform ==
    /\ pc = "validated"
    /\ is_valid
    /\ model_data' = transform_to_model_data(raw_data)
    /\ steps' = Append(steps, "transform")
    /\ pc' = "build"
    /\ UNCHANGED <<names, raw_data, raw_input, validation, model_data_again, mdl,
                   demo_lp, status, X, objective_value, returned, exception>>

\* A second call of transform_to_model_data on the same RawData.
TransformAgain ==
    /\ pc = "build"
    /\ model_data_again = None
    /\ model_data_again' = transform_to_model_data(raw_data)
    /\ UNCHANGED <<names, raw_data, raw_input, pc, validation, model_data, mdl,
                   demo_lp, status, X, objective_value, returned, exception,
                   steps>>

\* __main__.py lines 20-21, model.py lines 50-59.
Build ==
    /\ pc = "build"
    /\ mdl' = build(model_data)
    /\ steps' = Append(steps, "build")
    /\ pc' = "export"
    /\ UNCHANGED <<names, raw_data, raw_input, validation, model_data,
                   model_data_again, demo_lp, status, X, objective_value,
                   returned, exception>>

\* model.py line 61.
Export ==
    /\ pc = "export"
    /\ demo_lp' = mdl
    /\ steps' = Append(steps, "export")
    /\ pc' = "solve"
    /\ UNCHANGED <<names, raw_data, raw_input, validation, model_data,
                   model_data_again, mdl, status, X, objective_value, returned,
                   exception>>

\* model.py lines 63-69.
Solve ==
    /\ pc = "solve"
    /\ \E o \in SolverOutcomes(mdl) :
          /\ status' = o.status
          /\ X' = o.X
          /\ objective_value' = o.ObjVal
    /\ steps' = Append(steps, "solve")
    /\ pc' = "interpret"
    /\ UNCHANGED <<names, raw_data, raw_input, validation, model_data,
                   model_data_again, mdl, demo_lp, returned, exception>>

\* model.py lines 71-85.
Interpret ==
    /\ pc = "interpret"
    /\ IF RaisesOnStatus(status)
       THEN /\ exception' = <<"Model results in infeasible solution.">>
            /\ pc' = "raised"
            /\ UNCHANGED <<returned, steps>>
       ELSE /\ returned' = SolutionData(SolutionFrame(status, mdl.variables, X))
            /\ steps' = IF status = "OPTIMAL" THEN Append(steps, "extract")
                        ELSE steps
            /\ pc' = "returned"
            /\ UNCHANGED exception
    /\ UNCHANGED <<names, raw_data, raw_input, validation, model_data,
                   model_data_again, mdl, demo_lp, status, X, objective_value>>

Next ==
    \/ Validate
    \/ RaiseInvalid
    \/ Transform
    \/ Build
    \/ Export
    \/ Solve
    \/ Interpret

Spec == Init /\ [][Next]_vars

NextData ==
    \/ Validate
    \/ RaiseInvalid
    \/ Transform
    \/ TransformAgain

SpecData == InitData /\ [][NextData]_vars

-----------------------------------------------------------------------------
(* Properties.                                                             *)

Validated == validation # <<>>

\* The error list holds a message of the given check.
HasError(check) == \E i \in 1..Len(errors) : errors[i].check = check

TotalTime(rd) == ColumnSum(rd.tasks, "Time")
TotalAvailableTime(rd) == ColumnSum(rd.resources, "AvailableTime")

\* The tasks of Tasks that appear in no compatibility row.
UncoveredTasks(rd) ==
    {t \in DOMAIN rd.tasks : \A p \in rd.tasks_for_resource : p[2] # t}

\* C1: once validate() has returned, every task of Tasks that appears in no
\* TaskForResource row makes is_valid false and is named in a message of the
\* error list, whatever else the compatibility table references.
C1_UncoveredTaskIsReported ==
    Validated =>
        \A t \in UncoveredTasks(raw_data) :
            /\ ~is_valid
            /\ \E i \in 1..Len(errors) :
                  /\ errors[i].check = "coverage"
                  /\ t \in errors[i].missing_tasks

\* C2: validate() records a capacity error exactly when the sum of Task.Time
\* is strictly greater than the sum of Resource.AvailableTime, and then
\* is_valid is false; with equal sums or slack there is no capacity error.
C2_CapacityErrorIffExceeded ==
    Validated =>
        /\ HasError("capacity") <=> TotalTime(raw_data) > TotalAvailableTime(raw_data)
        /\ HasError("capacity") => ~is_valid

\* A validated input whose sums are equal, that has no error at all, and for
\* which no distribution over the resources exists.
C2_Witness ==
    /\ Validated
    /\ TotalTime(raw_data) = TotalAvailableTime(raw_data)
    /\ TotalTime(raw_data) > 0
    /\ errors = <<>>
    /\ is_valid
    /\ ReferencesExist(raw_data)
    /\ FeasibleSolutions(build(transform_to_model_data(raw_data))) = {}

\* C3: both checks run on every call, capacity first: two failures give the
\* two messages in that order, one failure gives that one message, and
\* is_valid is true exactly when the error list is empty.
C3_BothChecksAlwaysRun ==
    Validated =>
        LET capacity == TotalTime(raw_data) > TotalAvailableTime(raw_data)
            coverage == Cardinality({p[2] : p \in raw_data.tasks_for_resource})
                            < Cardinality(DOMAIN raw_data.tasks)
        IN /\ (capacity /\ coverage) =>
                /\ Len(errors) = 2
                /\ errors[1].check = "capacity"
                /\ errors[2].check = "coverage"
           /\ (capacity /\ ~coverage) =>
                (Len(errors) = 1 /\ errors[1].check = "capacity")
           /\ (~capacity /\ coverage) =>
                (Len(errors) = 1 /\ errors[1].check = "coverage")
           /\ is_valid <=> errors = <<>>
           /\ (~capacity /\ ~coverage) <=> validation = <<TRUE, <<>> >>

\* Both checks failed on one call.
C3_Witness ==
    /\ Validated
    /\ Len(errors) = 2
    /\ TotalTime(raw_data) > TotalAvailableTime(raw_data)
    /\ UncoveredTasks(raw_data) # {}

AllSteps == <<"validate", "transform", "build", "export", "solve", "extract">>

IsPrefix(s, t) == Len(s) <= Len(t) /\ \A i \in 1..Len(s) : s[i] = t[i]

\* C4: the transform and everything after it happen only after validate()
\* returned is_valid = true; on false the run halts with the joined error
\* messages and no ModelData, model, demo.lp or solve exists; the steps are
\* always a prefix of validate, transform, build, export, solve, extract.
C4_ValidateGatesThePipeline ==
    /\ IsPrefix(steps, AllSteps)
    /\ Len(steps) >= 2 => (Validated /\ is_valid)
    /\ (model_data # None \/ mdl # None \/ demo_lp # None \/ status # "None"
            \/ returned # None) => (Validated /\ is_valid)
    /\ (Validated /\ ~is_valid) =>
          /\ pc \in {"validated", "halted"}
          /\ steps = <<"validate">>
    /\ pc = "halted" =>
          /\ ~is_valid
          /\ exception = Join(", ", errors)
          /\ Len(exception) = 2 * Len(errors) - 1

\* A run that went through every step.
C4_Witness ==
    /\ pc = "returned"
    /\ steps = AllSteps
    /\ is_valid

\* The rows of the assignment table build_and_solve returned.
Assigned == DOMAIN returned.assignments

EndedOptimal == pc = "returned" /\ status = "OPTIMAL"

\* C5: when build_and_solve ends with status Optimal, every task of Tasks
\* has exactly one row in the returned table, the rows are exactly the
\* compatibility pairs whose solved value is above 0.1, and every row is a
\* compatibility pair of the input.
C5_AssignmentCompleteness ==
    EndedOptimal =>
        /\ \A t \in DOMAIN raw_input.tasks :
              Cardinality({p \in Assigned : p[2] = t}) = 1
        /\ Assigned = {p \in raw_input.tasks_for_resource : 10 * X[p] > 1}
        /\ Assigned \subseteq raw_input.tasks_for_resource

\* An Optimal end with two tasks, one of which had two resources to choose from.
C5_Witness ==
    /\ EndedOptimal
    /\ Cardinality(DOMAIN raw_input.tasks) = 2
    /\ \E t \in DOMAIN raw_input.tasks :
          Cardinality({p \in raw_input.tasks_for_resource : p[2] = t}) = 2

\* The total Time of the tasks a resource has in a set of pairs.
AssignedTime(rd, pairs, r) ==
    ColumnSum([t \in {p[2] : p \in {q \in pairs : q[1] = r}} |-> rd.tasks[t]],
              "Time")

\* C6: when build_and_solve ends with status Optimal, no resource of
\* Resources is assigned more Time than its AvailableTime; the model holds one
\* capacity constraint for each resource of the compatibility table and none
\* for a resource without compatible tasks.
C6_CapacityRespected ==
    /\ EndedOptimal =>
          \A r \in DOMAIN raw_input.resources :
              AssignedTime(raw_input, Assigned, r)
                  <= raw_input.resources[r].AvailableTime
    /\ mdl # None =>
          \A r \in ResourceKeys :
              Cardinality({c \in mdl.max_hours : c.index = r})
                  = IF \E p \in raw_input.tasks_for_resource : p[1] = r
                    THEN 1 ELSE 0

\* An Optimal end where a task went to a resource although a cheaper one was
\* compatible with it: the cheaper one had no hours left for it.
C6_Witness ==
    /\ EndedOptimal
    /\ \E p \in Assigned, q \in raw_input.tasks_for_resource :
          /\ q[2] = p[2]
          /\ q \notin Assigned
          /\ raw_input.resources[q[1]].CostPerHour
                < raw_input.resources[p[1]].CostPerHour

\* C7: when the solver reports Infeasible, build_and_solve raises and no
\* SolutionData is returned.
C7_InfeasibleRaises ==
    status = "INFEASIBLE" =>
        /\ returned = None
        /\ pc \in {"interpret", "raised"}
        /\ pc = "raised" =>
              exception = <<"Model results in infeasible solution.">>

\* The run raised on an input that passed both checks of validate().
C7_Witness ==
    /\ pc = "raised"
    /\ status = "INFEASIBLE"
    /\ is_valid
    /\ TotalTime(raw_input) <= TotalAvailableTime(raw_input)
    /\ UncoveredTasks(raw_input) = {}

\* C8: a SolutionData is returned only when the status is Optimal; every
\* other status ends in an explicit failure.
C8_OnlyOptimalReturns ==
    /\ returned # None => status = "OPTIMAL"
    /\ (pc \in {"returned", "raised"} /\ status # "OPTIMAL") => exception # None

\* The assignments the problem statement allows: pairs of the compatibility
\* table, one per task of Tasks, no resource over its AvailableTime.
IsFeasibleAssignment(rd, pairs) ==
    /\ pairs \subseteq rd.tasks_for_resource
    /\ \A t \in DOMAIN rd.tasks : Cardinality({p \in pairs : p[2] = t}) = 1
    /\ \A r \in DOMAIN rd.resources :
          AssignedTime(rd, pairs, r) <= rd.resources[r].AvailableTime

\* The total Cost of a set of pairs: CostPerHour of the resource times Time
\* of the task, summed.
RECURSIVE TotalCost(_, _)
TotalCost(rd, pairs) ==
    IF pairs = {} THEN 0
    ELSE LET p == CHOOSE p \in pairs : TRUE
         IN rd.resources[p[1]].CostPerHour * rd.tasks[p[2]].Time
                + TotalCost(rd, pairs \ {p})

\* C9: with status Optimal the returned assignment is feasible, its total
\* Cost is minimal over all feasible assignments and equals the objective
\* value the solver reports; the example scenario ends with exactly
\* {(R2,T1), (R1,T2)} and objective 54.
C9_Optimality ==
    EndedOptimal =>
        /\ IsFeasibleAssignment(raw_input, Assigned)
        /\ \A other \in SUBSET raw_input.tasks_for_resource :
              IsFeasibleAssignment(raw_input, other) =>
                  TotalCost(raw_input, Assigned) <= TotalCost(raw_input, other)
        /\ objective_value = TotalCost(raw_input, Assigned)
        /\ raw_input = ExampleScenario =>
              /\ Assigned = {<<"R2", "T1">>, <<"R1", "T2">>}
              /\ objective_value = 54

\* The example scenario solved to Optimal.
C9_Witness ==
    /\ EndedOptimal
    /\ raw_input = ExampleScenario
    /\ objective_value = 54

\* C10: for validated RawData the transform returns exactly the rows of the
\* input compatibility table, each with Cost = CostPerHour of its resource
\* times Time of its task (missing where the row's resource or task has no
\* row of its own), Tasks and Resources projected to Time and AvailableTime;
\* a second call returns the same ModelData and RawData is left as it was.
C10_TransformPreservesRows ==
    model_data # None =>
        /\ is_valid
        /\ DOMAIN model_data.tasks_for_resource = raw_input.tasks_for_resource
        /\ \A p \in raw_input.tasks_for_resource :
              model_data.tasks_for_resource[p] =
                  [Cost |->
                      IF p[1] \in DOMAIN raw_input.resources
                            /\ p[2] \in DOMAIN raw_input.tasks
                      THEN raw_input.resources[p[1]].CostPerHour
                               * raw_input.tasks[p[2]].Time
                      ELSE NaN]
        /\ model_data.tasks =
              [t \in DOMAIN raw_input.tasks |-> [Time |-> raw_input.tasks[t].Time]]
        /\ model_data.resources =
              [r \in DOMAIN raw_input.resources |->
                  [AvailableTime |-> raw_input.resources[r].AvailableTime]]
        /\ raw_data = raw_input
        /\ model_data_again # None => model_data_again = model_data

\* Two calls made on a validated RawData that holds a row with a Cost of 4
\* and a row whose task is not in Tasks.
C10_Witness ==
    /\ model_data_again # None
    /\ \E p, q \in DOMAIN model_data.tasks_for_resource :
          /\ model_data.tasks_for_resource[p].Cost = 4
          /\ q[2] \notin DOMAIN raw_input.tasks

-----------------------------------------------------------------------------
(* Naming: build_and_solve's variables and constraints over an index whose *)
(* keys are strings of any content and integers.  The run above keeps its  *)
(* keys opaque; here each key has its characters and its type.             *)

MaxNamedRows == 2

NamedResourceKeys ==
    {PyStr(<<"a">>), PyStr(<<"a", ",", "b">>), PyStr(<<"1">>), PyInt(1)}

NamedTaskKeys ==
    {PyStr(<<"c">>), PyStr(<<"b", ",", "c">>), PyStr(<<"1">>), PyInt(1)}

\* A compatibility table of at most MaxNamedRows rows over those keys, every
\* task taking one hour and every resource having hours for all of them.
NamedRawDatas ==
    {RawData([t \in GroupByTask(index) |-> [Time |-> 1]],
             [r \in GroupByResource(index) |->
                 [AvailableTime |-> Cardinality(index), CostPerHour |-> 1]],
             index)
     : index \in {i \in SUBSET (NamedResourceKeys \X NamedTaskKeys) :
                     Cardinality(i) \in 1..MaxNamedRows}}

\* __main__.py lines 11-20: validated, transformed, DemoModel constructed.
InitNames ==
    \E rd \in NamedRawDatas :
        /\ raw_data = rd
        /\ raw_input = rd
        /\ pc = "build_variables"
        /\ validation = validate(rd)
        /\ model_data = transform_to_model_data(rd)
        /\ model_data_again = None
        /\ mdl = None
        /\ demo_lp = None
        /\ status = "None"
        /\ X = None
        /\ objective_value = None
        /\ returned = None
        /\ exception = None
        /\ steps = <<"validate", "transform">>
        /\ names = None

\* model.py line 52, model-ortools.py lines 51 and 86-92.
BuildVariables ==
    /\ pc = "build_variables"
    /\ names' = [x |-> build_variable_names(model_data)]
    /\ pc' = "build_constraints"
    /\ UNCHANGED <<raw_data, raw_input, validation, model_data,
                   model_data_again, mdl, demo_lp, status, X, objective_value,
                   returned, exception, steps>>

\* model.py line 54 and lines 97-115.
BuildConstraints ==
    /\ pc = "build_constraints"
    /\ names' = [x |-> names.x,
                 MaxHoursForResource |->
                     max_hours_constraint_names(DOMAIN names.x),
                 AssignEachTaskToOneResource |->
                     one_resource_constraint_names(DOMAIN names.x)]
    /\ pc' = "named"
    /\ UNCHANGED <<raw_data, raw_input, validation, model_data,
                   model_data_again, mdl, demo_lp, status, X, objective_value,
                   returned, exception, steps>>

NextNames ==
    \/ BuildVariables
    \/ BuildConstraints

SpecNames == InitNames /\ [][NextNames]_vars

\* C11: there is exactly one variable per row of the compatibility table and
\* none for any other pair, its name is x[resource,task], and names are
\* unique: two distinct pairs never share a variable name, two distinct
\* resources never share a MaxHoursForResource name, two distinct tasks never
\* share an AssignEachTaskToOneResource name, whatever the keys are.
C11_NamesAreUnique ==
    names # None =>
        /\ DOMAIN names.x = raw_input.tasks_for_resource
        /\ \A p \in DOMAIN names.x :
              names.x[p] =
                  <<"x", "[">> \o str(p[1]) \o <<",">> \o str(p[2]) \o <<"]">>
        /\ \A p, q \in DOMAIN names.x : p # q => names.x[p] # names.x[q]
        /\ pc = "named" =>
              /\ \A r, s \in DOMAIN names.MaxHoursForResource :
                    r # s => names.MaxHoursForResource[r]
                                 # names.MaxHoursForResource[s]
              /\ \A t, u \in DOMAIN names.AssignEachTaskToOneResource :
                    t # u => names.AssignEachTaskToOneResource[t]
                                 # names.AssignEachTaskToOneResource[u]

====
